---- MODULE Spec2Model ----
(***************************************************************************)
(* A model of fastmcp's ToolManager (src/fastmcp/tools/tool_manager.py):   *)
(* the name -> Tool dict of each manager, its duplicate policy, the        *)
(* registration, lookup, listing, call and import operations.              *)
(*                                                                         *)
(* A Python dict keeps insertion order and import_tools iterates the       *)
(* live dict of the other manager, so a dict is modelled as a sequence of  *)
(* <<key, value>> pairs with distinct keys, and the loop of import_tools   *)
(* as one step per use of the dict iterator.                               *)
(***************************************************************************)
EXTENDS Naturals, Sequences, FiniteSets, TLC

VARIABLES
    tools,               \* tools[m]: ToolManager._tools of manager m
    duplicate_behavior,  \* duplicate_behavior[m]: ToolManager.duplicate_behavior
    imp,                 \* the running import_tools call (its dict iterator), or NoImport
    call,                \* the call_tool coroutine suspended at "await tool.run", or NoCall
    log,                 \* the log records of the call that runs or has just ended
    ret                  \* what the call that has just ended hands to its caller

vars == <<tools, duplicate_behavior, imp, call, log, ret>>

----------------------------------------------------------------------------
(* Bounds of the model *)

\* the largest number of entries a dict of the model holds
MaxTools == 2

----------------------------------------------------------------------------
(* Values *)

\* Python's None
None == "None"

\* bool(x) of a str | None or of a Tool | None: None and "" are falsy
Truthy(x) == x # None /\ x # ""

\* DuplicateBehavior
WARN == "warn"
REPLACE == "replace"
ERROR == "error"
IGNORE == "ignore"
DuplicateBehavior == {WARN, REPLACE, ERROR, IGNORE}

\* the managers: a server's own ("main"), which imports, and a mounted
\* server's ("sub")
Managers == {"main", "sub"}

\* the Tool objects
ToolObjects == {"T1", "T2"}

\* Tool.name
tool_name(tool) == IF tool = "T1" THEN "a" ELSE "b"

\* the name argument of add_tool
NameArgs == {None, "", "b"}

\* the prefix argument of import_tools
PrefixArgs == {None, "", "p"}

\* the name argument of get_tool and call_tool
LookupArgs == {"b", "pb", "zz"}

\* the (arguments, context) pairs of call_tool
CallArgs == {<<"args1", None>>, <<"args2", "ctx">>}

\* what a call returned or raised
Return(v) == [kind |-> "return", exc |-> None, val |-> v]
Raise(e, msg) == [kind |-> "raise", exc |-> e, val |-> msg]

\* what Tool.run of a tool may do
RunOutcomes == {Return("result"), Raise("ToolRunError", "boom")}

\* the outcome of a call of op(self, args), as its caller gets it; items holds
\* a returned list or dict
Outcome(op, self, args, out, items) ==
    [op |-> op, self |-> self, args |-> args,
     kind |-> out.kind, exc |-> out.exc, val |-> out.val, items |-> items]

\* no call has just ended
NoRet == Outcome(None, None, <<>>, [kind |-> None, exc |-> None, val |-> None], <<>>)

----------------------------------------------------------------------------
(* dict[str, Tool] in insertion order *)

Keys(d) == {d[i][1] : i \in 1..Len(d)}

IndexOf(d, k) == CHOOSE i \in 1..Len(d) : d[i][1] = k

\* d.get(k)
DictGet(d, k) == IF k \in Keys(d) THEN d[IndexOf(d, k)][2] ELSE None

\* a d[k] = v that adds an entry even when the key has one
DictSet_Append(d, k, v) == Append(d, <<k, v>>)

\* d[k] = v: an existing key keeps its position
DictSet(d, k, v) ==
    IF k \in Keys(d)
    THEN [d EXCEPT ![IndexOf(d, k)] = <<k, v>>]
    ELSE Append(d, <<k, v>>)

\* list(d.values())
Values(d) == [i \in 1..Len(d) |-> d[i][2]]

----------------------------------------------------------------------------
(* Log records *)

\* logger.warning(f"Tool already exists: {name}")
Warning(name) == <<"warning", "Tool already exists: " \o name>>

\* logger.debug(f'Imported tool "{tool.name}" as "{prefixed_name}"')
Debug(intrinsic, prefixed_name) == <<"debug", intrinsic, prefixed_name>>

\* Tool.to_mcp_tool(name=name): the descriptor of a tool under its registered name
to_mcp_tool(tool, name) == <<"MCPTool", name, tool>>

----------------------------------------------------------------------------
(* ToolManager.add_tool as a function of the dict, the policy and the arguments *)

\* a key that ignores the name given
EffectiveName_Intrinsic(tool, name) == tool_name(tool)

\* name = name or tool.name
EffectiveName(tool, name) == IF Truthy(name) THEN name ELSE tool_name(tool)

\* a branch whose ERROR case does not raise
OnExisting_ErrorFallsThrough(d, behavior, name, tool) ==
    CASE behavior = WARN ->
           [raised |-> FALSE, d |-> DictSet(d, name, tool), log |-> <<Warning(name)>>]
      [] behavior = REPLACE ->
           [raised |-> FALSE, d |-> DictSet(d, name, tool), log |-> <<>>]
      [] behavior \in {ERROR, IGNORE} ->
           [raised |-> FALSE, d |-> d, log |-> <<>>]

\* the branch taken when the name has an entry: whether it raised, the dict
\* and the log records after it
OnExisting(d, behavior, name, tool) ==
    CASE behavior = WARN ->
           [raised |-> FALSE, d |-> DictSet(d, name, tool), log |-> <<Warning(name)>>]
      [] behavior = REPLACE ->
           [raised |-> FALSE, d |-> DictSet(d, name, tool), log |-> <<>>]
      [] behavior = ERROR ->
           [raised |-> TRUE, d |-> d, log |-> <<>>]
      [] behavior = IGNORE ->
           [raised |-> FALSE, d |-> d, log |-> <<>>]

\* the store that follows the branch: self._tools[name] = tool
StoreAfterBranch(d, name, tool) == DictSet(d, name, tool)

\* an add_tool that keeps the entry a name has and returns it
AddTool_KeepExisting(d, behavior, tool, name) ==
    LET key == EffectiveName(tool, name)
        existing == DictGet(d, key)
    IN  IF Truthy(existing)
        THEN [tools |-> d, log |-> <<>>, out |-> Return(existing)]
        ELSE [tools |-> DictSet(d, key, tool), log |-> <<>>, out |-> Return(tool)]

\* add_tool(tool, name) on a manager with dict d: the dict after it, what it
\* logged, and what it returned or raised
AddTool(d, behavior, tool, name) ==
    LET key == EffectiveName(tool, name)
        existing == DictGet(d, key)
        br == IF Truthy(existing)
              THEN OnExisting(d, behavior, key, tool)
              ELSE [raised |-> FALSE, d |-> d, log |-> <<>>]
    IN  IF br.raised
        THEN [tools |-> d, log |-> br.log,
              out |-> Raise("ValueError", "Tool already exists: " \o key)]
        ELSE [tools |-> StoreAfterBranch(br.d, key, tool), log |-> br.log,
              out |-> Return(tool)]

\* a prefix put after the name
PrefixedName_Suffixed(prefix, name) == IF Truthy(prefix) THEN name \o prefix ELSE name

\* prefixed_name = f"{prefix}{name}" if prefix else name
PrefixedName(prefix, name) == IF Truthy(prefix) THEN prefix \o name ELSE name

\* an import that registers with the policy of the manager it reads
ImportBehavior_OfOther(self, other) == duplicate_behavior[other]

\* import_tools registers through self.add_tool: the policy is self's
ImportBehavior(self, other) == duplicate_behavior[self]

\* tool = self.get_tool(name) of call_tool
LookupForCall(d, name) == DictGet(d, name)

\* a call_tool that returns None for a name with no entry
UnknownTool_ReturnsNone(name) == Return(None)

\* raise ToolError(f"Unknown tool: {name}")
UnknownTool(name) == Raise("ToolError", "Unknown tool: " \o name)

\* tool.run(arguments, context=context): the run call_tool awaits
RunFrame(self, name, tool, arguments, context) ==
    [self |-> self, name |-> name, tool |-> tool,
     arguments |-> arguments, context |-> context]

NoCall == RunFrame(None, None, None, None, None)

\* a call_tool that wraps what run raised in a ToolError
CallOutcome_Wrapped(outcome) ==
    IF outcome.kind = "raise"
    THEN Raise("ToolError", "Error calling tool: " \o outcome.val)
    ELSE outcome

\* return await tool.run(...): call_tool returns or raises what run did
CallOutcome(outcome) == outcome

\* no import_tools call runs
NoImport ==
    [self |-> None, other |-> None, prefix |-> None, pos |-> 0, used |-> 0,
     at_call |-> <<>>]

----------------------------------------------------------------------------
(* The bound as a guard *)

\* the names import_tools(other, prefix) registers that self does not hold
NewNames(self, other, prefix) ==
    {PrefixedName(prefix, k) : k \in Keys(tools[other])} \ Keys(tools[self])

\* the import stays within the bound: a manager importing from itself stops
\* at the first name it adds
ImportFits(self, other, prefix) ==
    LET n == Cardinality(NewNames(self, other, prefix))
    IN  Len(tools[self]) + (IF self = other /\ n > 0 THEN 1 ELSE n) <= MaxTools

----------------------------------------------------------------------------
(* The state machine *)

Init ==
    /\ tools = [m \in Managers |-> <<>>]
    /\ duplicate_behavior \in [Managers -> DuplicateBehavior]
    /\ imp = NoImport
    /\ call = NoCall
    /\ log = <<>>
    /\ ret = NoRet

\* the owner of the managers is between two calls: none runs and the outcome
\* of the last one has been taken (one task owns the managers, and makes its
\* calls one after the other)
Idle == imp = NoImport /\ call = NoCall /\ ret = NoRet

get_tool(self, name) ==
    /\ Idle
    /\ ret' = Outcome("get_tool", self, <<name>>,
                      Return(DictGet(tools[self], name)), <<>>)
    /\ UNCHANGED <<tools, duplicate_behavior, imp, call, log>>

get_tools(self) ==
    /\ Idle
    /\ ret' = Outcome("get_tools", self, <<>>, Return("dict"), tools[self])
    /\ UNCHANGED <<tools, duplicate_behavior, imp, call, log>>

list_tools(self) ==
    /\ Idle
    /\ ret' = Outcome("list_tools", self, <<>>, Return("list"), Values(tools[self]))
    /\ UNCHANGED <<tools, duplicate_behavior, imp, call, log>>

list_mcp_tools(self) ==
    /\ Idle
    /\ ret' = Outcome("list_mcp_tools", self, <<>>, Return("list"),
                      [i \in 1..Len(tools[self]) |->
                          to_mcp_tool(tools[self][i][2], tools[self][i][1])])
    /\ UNCHANGED <<tools, duplicate_behavior, imp, call, log>>

add_tool(self, tool, name) ==
    /\ Idle
    /\ LET r == AddTool(tools[self], duplicate_behavior[self], tool, name)
       IN  /\ Len(r.tools) <= MaxTools
           /\ tools' = [tools EXCEPT ![self] = r.tools]
           /\ log' = r.log
           /\ ret' = Outcome("add_tool", self, <<tool, name>>, r.out, <<>>)
    /\ UNCHANGED <<duplicate_behavior, imp, call>>

\* tool = Tool.from_function(fn, ...); return self.add_tool(tool)
add_tool_from_fn(self, tool) == add_tool(self, tool, None)

\* call_tool up to its await: an unknown name raises, a known one has its
\* tool's run started
call_tool(self, name, arguments, context) ==
    /\ Idle
    /\ LET tool == LookupForCall(tools[self], name)
       IN  IF ~Truthy(tool)
           THEN /\ ret' = Outcome("call_tool", self, <<name, arguments, context>>,
                                  UnknownTool(name), <<>>)
                /\ call' = call
           ELSE /\ ret' = ret
                /\ call' = RunFrame(self, name, tool, arguments, context)
    /\ UNCHANGED <<tools, duplicate_behavior, imp, log>>

\* the awaited run ends and call_tool hands its outcome to the caller
run_done(outcome) ==
    /\ call # NoCall
    /\ ret' = Outcome("call_tool", call.self,
                      <<call.name, call.arguments, call.context>>,
                      CallOutcome(outcome), <<>>)
    /\ call' = NoCall
    /\ UNCHANGED <<tools, duplicate_behavior, imp, log>>

\* import_tools up to its loop: tool_manager._tools.items() is iterated live;
\* at_call remembers the dicts at the call, which the code does not
import_tools(self, other, prefix) ==
    /\ Idle
    /\ ImportFits(self, other, prefix)
    /\ imp' = [self |-> self, other |-> other, prefix |-> prefix,
               pos |-> 0, used |-> Len(tools[other]), at_call |-> tools]
    /\ UNCHANGED <<tools, duplicate_behavior, call, log, ret>>

\* one use of the dict iterator and, when it yields, one run of the loop body
import_next ==
    /\ imp # NoImport
    /\ LET d == tools[imp.other]
           done(out) ==
               /\ ret' = Outcome("import_tools", imp.self, <<imp.other, imp.prefix>>,
                                 out, <<>>)
               /\ imp' = NoImport
       IN  IF Len(d) # imp.used
           THEN /\ done(Raise("RuntimeError", "dictionary changed size during iteration"))
                /\ UNCHANGED <<tools, log>>
           ELSE IF imp.pos >= Len(d)
           THEN /\ done(Return(None))
                /\ UNCHANGED <<tools, log>>
           ELSE LET name == d[imp.pos + 1][1]
                    tool == d[imp.pos + 1][2]
                    prefixed_name == PrefixedName(imp.prefix, name)
                    r == AddTool(tools[imp.self], ImportBehavior(imp.self, imp.other),
                                 tool, prefixed_name)
                IN  IF r.out.kind = "raise"
                    THEN /\ done(r.out)
                         /\ log' = log \o r.log
                         /\ UNCHANGED tools
                    ELSE /\ tools' = [tools EXCEPT ![imp.self] = r.tools]
                         /\ log' = log \o r.log
                                       \o <<Debug(tool_name(tool), prefixed_name)>>
                         /\ imp' = [imp EXCEPT !.pos = imp.pos + 1]
                         /\ UNCHANGED ret
    /\ UNCHANGED <<duplicate_behavior, call>>

\* the caller takes the outcome of the call that has just ended
taken ==
    /\ ret # NoRet
    /\ ret' = NoRet
    /\ log' = <<>>
    /\ UNCHANGED <<tools, duplicate_behavior, imp, call>>

Next ==
    \/ \E self \in Managers, name \in LookupArgs : get_tool(self, name)
    \/ \E self \in Managers : get_tools(self)
    \/ \E self \in Managers : list_tools(self)
    \/ \E self \in Managers : list_mcp_tools(self)
    \/ \E self \in Managers, tool \in ToolObjects, name \in NameArgs :
          add_tool(self, tool, name)
    \/ \E self \in Managers, tool \in ToolObjects : add_tool_from_fn(self, tool)
    \/ \E self \in Managers, name \in LookupArgs, ca \in CallArgs :
          call_tool(self, name, ca[1], ca[2])
    \/ \E outcome \in RunOutcomes : run_done(outcome)
    \/ \E other \in Managers, prefix \in PrefixArgs :
          import_tools("main", other, prefix)
    \/ import_next
    \/ taken

Spec == Init /\ [][Next]_vars

----------------------------------------------------------------------------
(* What the properties below speak of *)

\* the key a registration of tool under the name given is about
GivenKey(tool, name) == IF name = None \/ name = "" THEN tool_name(tool) ELSE name

\* the name import_tools gives to name under prefix
GivenPrefixed(prefix, name) == IF prefix = None \/ prefix = "" THEN name ELSE prefix \o name

\* this step is a call of add_tool by the owner
AddToolStep == ret = NoRet /\ ret'.op = "add_tool"

\* this step ends an import_tools call
ImportEnds == imp # NoImport /\ imp' = NoImport

\* what ret says the call returned or raised
Out(r) == [kind |-> r.kind, exc |-> r.exc, val |-> r.val]

\* self.add_tool(tool, name = prefix + name) for the entries i.. of a list of
\* entries, one after the other, from dict d on: the dict and the outcome
RECURSIVE RegisterEach(_, _, _, _, _)
RegisterEach(d, behavior, entries, prefix, i) ==
    IF i > Len(entries)
    THEN [tools |-> d, out |-> Return(None)]
    ELSE LET r == AddTool(d, behavior, entries[i][2],
                          GivenPrefixed(prefix, entries[i][1]))
         IN  IF r.out.kind = "raise"
             THEN [tools |-> d, out |-> r.out]
             ELSE RegisterEach(r.tools, behavior, entries, prefix, i + 1)

----------------------------------------------------------------------------
(* The claims *)

\* C1: under IGNORE, add_tool(T2, N) on a manager where N maps to another tool
\* T1 returns T2 and leaves the dicts as they were.
C1_IgnoreKeepsExisting ==
    [][AddToolStep =>
        LET self == ret'.self
            tool == ret'.args[1]
            key == GivenKey(ret'.args[1], ret'.args[2])
        IN  (/\ duplicate_behavior[self] = IGNORE
             /\ key \in Keys(tools[self])
             /\ DictGet(tools[self], key) # tool)
            => /\ ret'.kind = "return"
               /\ ret'.val = tool
               /\ tools' = tools]_vars

\* C2: under ERROR, add_tool on a name that has an entry raises ValueError
\* "Tool already exists: <name>" and leaves the dicts as they were.
C2_ErrorRejectsDuplicate ==
    [][AddToolStep =>
        LET self == ret'.self
            key == GivenKey(ret'.args[1], ret'.args[2])
        IN  (duplicate_behavior[self] = ERROR /\ key \in Keys(tools[self]))
            => /\ Out(ret') = Raise("ValueError", "Tool already exists: " \o key)
               /\ tools' = tools]_vars

C2_Witness ==
    /\ ret.op = "add_tool"
    /\ ret.exc = "ValueError"
    /\ duplicate_behavior[ret.self] = ERROR
    /\ DictGet(tools[ret.self], GivenKey(ret.args[1], ret.args[2])) # ret.args[1]

\* C3: under REPLACE or WARN, add_tool on a name that has an entry returns the
\* new tool, stores it under the name and changes no other entry; WARN logs one
\* warning and REPLACE logs nothing.
C3_ReplaceAndWarnOverwrite ==
    [][AddToolStep =>
        LET self == ret'.self
            tool == ret'.args[1]
            key == GivenKey(ret'.args[1], ret'.args[2])
        IN  (duplicate_behavior[self] \in {REPLACE, WARN} /\ key \in Keys(tools[self]))
            => /\ Out(ret') = Return(tool)
               /\ Len(tools'[self]) = Len(tools[self])
               /\ \A i \in 1..Len(tools[self]) :
                     tools'[self][i] = IF tools[self][i][1] = key
                                       THEN <<key, tool>>
                                       ELSE tools[self][i]
               /\ \A m \in Managers \ {self} : tools'[m] = tools[m]
               /\ log' = IF duplicate_behavior[self] = WARN
                         THEN << <<"warning", "Tool already exists: " \o key>> >>
                         ELSE <<>>]_vars

C3_Witness ==
    /\ ret.op = "add_tool"
    /\ ret.kind = "return"
    /\ duplicate_behavior[ret.self] = WARN
    /\ log = << <<"warning", "Tool already exists: b">> >>
    /\ tools[ret.self] = << <<"a", "T1">>, <<"b", ret.args[1]>> >>

\* C4: under every policy, add_tool on a name that has no entry returns the
\* tool and adds it under that name, changing nothing else; the name is the
\* one given, or the tool's own when none is given.
C4_NewNameIsInserted ==
    [][AddToolStep =>
        LET self == ret'.self
            tool == ret'.args[1]
            key == GivenKey(ret'.args[1], ret'.args[2])
        IN  key \notin Keys(tools[self])
            => /\ Out(ret') = Return(tool)
               /\ tools'[self] = Append(tools[self], <<key, tool>>)
               /\ DictGet(tools'[self], key) = tool
               /\ \A m \in Managers \ {self} : tools'[m] = tools[m]]_vars

C4_Witness ==
    /\ ret.op = "add_tool"
    /\ ret.kind = "return"
    /\ duplicate_behavior[ret.self] = ERROR
    /\ ret.args = <<"T1", None>>
    /\ tools[ret.self] = << <<"b", "T2">>, <<"a", "T1">> >>

\* C5: when import_tools(other, prefix) returns, every name X that other held
\* at the call maps, in self, under prefix + X (X when the prefix is None or
\* empty) to the tool X had in other at the call; and an add_tool on one
\* manager changes the dict of no other.
C5_ImportedUnderPrefix ==
    [][/\ (ImportEnds /\ ret'.kind = "return") =>
            \A i \in 1..Len(imp.at_call[imp.other]) :
                DictGet(tools'[imp.self],
                        GivenPrefixed(imp.prefix, imp.at_call[imp.other][i][1]))
                    = imp.at_call[imp.other][i][2]
       /\ AddToolStep =>
            \A m \in Managers \ {ret'.self} : tools'[m] = tools[m]]_vars

C5_Witness ==
    /\ ret.op = "import_tools"
    /\ ret.kind = "return"
    /\ ret.args = <<"sub", "p">>
    /\ Len(tools["sub"]) = 2
    /\ DictGet(tools["main"], "pb") = "T2"
    /\ DictGet(tools["sub"], "b") = "T2"

\* C6: import_tools from another manager leaves self and ends as
\* self.add_tool(tool, prefix + name) called for each entry of other in turn
\* would, under the policy of self whatever the policy of other, and leaves
\* the dict of other as it was.
C6_ImportIsRegistrationBySelf ==
    [][(ImportEnds /\ imp.other # imp.self) =>
        LET seq == RegisterEach(imp.at_call[imp.self], duplicate_behavior[imp.self],
                                imp.at_call[imp.other], imp.prefix, 1)
        IN  /\ tools'[imp.self] = seq.tools
            /\ Out(ret') = seq.out
            /\ tools'[imp.other] = imp.at_call[imp.other]]_vars

C6_Witness ==
    /\ ret.op = "import_tools"
    /\ ret.args[1] = "sub"
    /\ ret.exc = "ValueError"
    /\ duplicate_behavior = [m \in Managers |-> IF m = "main" THEN ERROR ELSE REPLACE]
    /\ Len(tools["main"]) = 2

\* C7: import_tools imports the entries other held at the call, one name each,
\* and then ends: it raises only what a registration raises, and when it
\* returns self holds its names at the call and prefix + X for each X of other
\* at the call, also when other is self.
C7_ImportOverSnapshot ==
    [][ImportEnds =>
        /\ ret'.exc \in {None, "ValueError"}
        /\ ret'.kind = "return" =>
              Keys(tools'[imp.self]) =
                  Keys(imp.at_call[imp.self])
                  \cup {GivenPrefixed(imp.prefix, k) : k \in Keys(imp.at_call[imp.other])}]_vars

\* C8: call_tool on a name that has no entry raises ToolError "Unknown tool:
\* <name>", starts no run and leaves the dicts as they were; a run is started
\* only for a name that has an entry.
C8_UnknownToolRaises ==
    [][/\ (ret = NoRet /\ call = NoCall /\ ret'.op = "call_tool") =>
            /\ ret'.args[1] \notin Keys(tools[ret'.self])
            /\ Out(ret') = Raise("ToolError", "Unknown tool: " \o ret'.args[1])
            /\ call' = NoCall
            /\ tools' = tools
       /\ \A self \in Managers, name \in LookupArgs, ca \in CallArgs :
            (call_tool(self, name, ca[1], ca[2]) /\ name \notin Keys(tools[self]))
            => ret'.exc = "ToolError" /\ call' = NoCall]_vars

C8_Witness ==
    /\ ret.op = "call_tool"
    /\ ret.exc = "ToolError"
    /\ ret.args[1] = "zz"
    /\ tools[ret.self] # <<>>

\* C9: call_tool on a name that has an entry starts one run, of the tool the
\* name maps to at the call, with the arguments and the context it was given;
\* it returns what that run returns and raises what that run raises, and
\* changes no dict.
C9_CallRunsTheStoredTool ==
    [][/\ \A self \in Managers, name \in LookupArgs, ca \in CallArgs :
            (call_tool(self, name, ca[1], ca[2]) /\ name \in Keys(tools[self]))
            => /\ call' = [self |-> self, name |-> name,
                           tool |-> DictGet(tools[self], name),
                           arguments |-> ca[1], context |-> ca[2]]
               /\ ret' = NoRet
               /\ tools' = tools
       /\ (call # NoCall /\ call' # call) =>
            /\ call' = NoCall
            /\ Out(ret') \in RunOutcomes
            /\ ret'.op = "call_tool"
            /\ ret'.self = call.self
            /\ ret'.args = <<call.name, call.arguments, call.context>>
            /\ tools' = tools]_vars

C9_Witness ==
    /\ ret.op = "call_tool"
    /\ ret.exc = "ToolRunError"
    /\ ret.args = <<"pb", "args2", "ctx">>

\* C10: the names of a manager never shrink, a name has at most one entry, the
\* policy never changes, and the dicts change only in add_tool and
\* import_tools: get_tool, get_tools, list_tools, list_mcp_tools and call_tool
\* leave them as they were.
C10_MappingChangesOnlyByRegistration ==
    [][/\ \A m \in Managers :
            /\ Keys(tools[m]) \subseteq Keys(tools'[m])
            /\ Cardinality(Keys(tools'[m])) = Len(tools'[m])
       /\ duplicate_behavior' = duplicate_behavior
       /\ tools' # tools => (AddToolStep \/ imp # NoImport)
       /\ (\/ ret'.op \in {"get_tool", "get_tools", "list_tools",
                           "list_mcp_tools", "call_tool"}
           \/ call' # call)
          => tools' = tools]_vars

C10_Witness ==
    /\ ret.op = "list_mcp_tools"
    /\ ret.items = << <<"MCPTool", "pb", "T2">>, <<"MCPTool", "b", "T1">> >>

====
